---------------------------- MODULE Spec2Model ----------------------------
(***************************************************************************)
(* A model of the two batch jobs of sqlite_conversion:                     *)
(*   xl_to_sqlite.py    - the import job (process_excel_files)              *)
(*   compress_sqlite.py - the post-process job (compress_sqlite_db)         *)
(* and of their pure helpers format_display_string, clean_int and the      *)
(* file-name pattern.  Text is a sequence of one-character strings, a      *)
(* SQLite file is the pair (db, work): db is what is durable on disk, work *)
(* is what the open connection sees, inTx tells whether the connection     *)
(* has a transaction open.                                                  *)
(***************************************************************************)
EXTENDS Integers, Sequences, FiniteSets, TLC

VARIABLES
    db,        \* the durable content of the database file
    work,      \* the content seen through the open connection
    inTx,      \* the connection has an open (uncommitted) transaction
    job,       \* "idle" | "import" | "compress"
    pc,        \* position inside the running job
    ci_files,  \* the import job's file list (stems), in glob order
    i,         \* 1-based index of the file the import loop is at
    cur,       \* process_file's locals: make_id, ecm_id, the sheet read
    rows,      \* compress_sqlite_db's fetched rows still to be edited
    log,       \* history: what became of each file of the running import,
               \* until its connection is closed
    calls,     \* history: every (arguments, id) a get_or_create_* returned
    failed,    \* history: rows a failing file had executed but not committed
    startDb,   \* history: the durable content when the last post-process
               \* job started (empty again once an import starts)
    outcome,   \* history: how the last job ended
    runs,      \* number of runs started so far, of each of the two jobs,
               \* and of files listed by the import runs
    arg,       \* the argument of the pure function under check
    res,       \* its result
    res2,      \* the result of applying it to its own result
    fpc        \* "init" | "called"

storeVars == <<db, work, inTx, job, pc, ci_files, i, cur, rows, log, calls,
               failed, startDb, outcome, runs>>
fnVars == <<arg, res, res2, fpc>>
vars == <<db, work, inTx, job, pc, ci_files, i, cur, rows, log, calls,
          failed, startDb, outcome, runs, arg, res, res2, fpc>>

---------------------------------------------------------------------------
(* Bounds of the model.                                                    *)

\* MaxFiles bounds the files the import runs list, all runs together.
MaxFiles == 2
MaxSheetRows == 1
MaxImports == 2
MaxCompressions == 2
MaxText == 4
MaxDigits == 4
MaxStem == 7

---------------------------------------------------------------------------
(* Text.                                                                   *)

SP == " "
LF == "\n"
CR == "\r"
TAB == "\t"

\* Python's None and pandas' NaN (an empty cell), as values that are no text:
\* a one-element sequence whose element is no character.
None == <<"None">>
NaN == <<"NaN">>

\* str(x) of a cell: NaN prints as "nan", a text is itself.
Str(x) == IF x = NaN THEN <<"n", "a", "n">> ELSE x

\* Characters Python's str.strip() and the pattern \s treat as blank.
Whitespace == {SP, LF, CR, TAB}

Digits == {"0", "1", "2", "3", "4", "5", "6", "7", "8", "9"}

DigitValue(c) ==
    CASE c = "0" -> 0 [] c = "1" -> 1 [] c = "2" -> 2 [] c = "3" -> 3
      [] c = "4" -> 4 [] c = "5" -> 5 [] c = "6" -> 6 [] c = "7" -> 7
      [] c = "8" -> 8 [] c = "9" -> 9

DigitChar(n) ==
    CASE n = 0 -> "0" [] n = 1 -> "1" [] n = 2 -> "2" [] n = 3 -> "3"
      [] n = 4 -> "4" [] n = 5 -> "5" [] n = 6 -> "6" [] n = 7 -> "7"
      [] n = 8 -> "8" [] n = 9 -> "9"

\* All texts over alphabet of length at most n.
TextsUpTo(alphabet, n) == UNION {[1..k -> alphabet] : k \in 0..n}

\* str.strip(): drop leading and trailing whitespace.
RECURSIVE LStrip(_)
LStrip(s) ==
    IF s # <<>> /\ Head(s) \in Whitespace THEN LStrip(Tail(s)) ELSE s

RECURSIVE RStrip(_)
RStrip(s) ==
    IF s # <<>> /\ s[Len(s)] \in Whitespace
    THEN RStrip(SubSeq(s, 1, Len(s) - 1))
    ELSE s

Strip(s) == RStrip(LStrip(s))

\* Number of consecutive c starting at position p of s.
RECURSIVE RunLength(_, _, _)
RunLength(s, p, cs) ==
    IF p <= Len(s) /\ s[p] \in cs THEN 1 + RunLength(s, p + 1, cs) ELSE 0

---------------------------------------------------------------------------
(* format_display_string: re.sub(r' *(\r\n|\n|  )', ' ', str(text)).strip() *)

\* Length of the match of ' *(\r\n|\n|  )' at position p, 0 when there is
\* none.  ' *' is greedy: it first takes the whole run of k spaces, where
\* only \r\n or \n can follow; giving two spaces back lets '  ' match.
MatchLen(s, p) ==
    LET k == RunLength(s, p, {SP})
        q == p + k
    IN  IF q + 1 <= Len(s) /\ s[q] = CR /\ s[q + 1] = LF THEN k + 2
        ELSE IF q <= Len(s) /\ s[q] = LF THEN k + 1
        ELSE IF k >= 2 THEN k
        ELSE 0

\* re.sub: scan from the left, replace each non-overlapping match by ' '.
RECURSIVE ReSub(_, _)
ReSub(s, p) ==
    IF p > Len(s) THEN <<>>
    ELSE LET m == MatchLen(s, p)
         IN  IF m > 0 THEN <<SP>> \o ReSub(s, p + m)
             ELSE <<s[p]>> \o ReSub(s, p + 1)

format_display_string(text) ==
    IF text = None THEN <<>> ELSE Strip(ReSub(Str(text), 1))

---------------------------------------------------------------------------
(* clean_int: re.sub(r'[^0-9]', '', value.split('.')[0]); int() or -1      *)

\* value.split('.')[0]: the text before the first '.'.
RECURSIVE SplitDotFirst(_)
SplitDotFirst(s) ==
    IF s = <<>> \/ Head(s) = "." THEN <<>>
    ELSE <<Head(s)>> \o SplitDotFirst(Tail(s))

\* re.sub(r'[^0-9]', '', s): keep the ASCII digits.
OnlyDigits(s) == SelectSeq(s, LAMBDA c : c \in Digits)

\* int(s) of a non-empty digit text, base 10, unbounded.
RECURSIVE IntOfDigits(_)
IntOfDigits(s) ==
    IF s = <<>> THEN 0
    ELSE 10 * IntOfDigits(SubSeq(s, 1, Len(s) - 1)) + DigitValue(s[Len(s)])

clean_int_whole(value) ==
    LET v == OnlyDigits(value)
    IN  IF v # <<>> THEN IntOfDigits(v) ELSE -1

clean_int(value) ==
    LET v == OnlyDigits(SplitDotFirst(value))
    IN  IF v # <<>> THEN IntOfDigits(v) ELSE -1

---------------------------------------------------------------------------
(* The file-name pattern: re.match(r"([^-]+)\s+-\s+(.+)", filename)        *)

\* Position of the first '-' of s, 0 when there is none.
RECURSIVE FirstHyphen(_, _)
FirstHyphen(s, p) ==
    IF p > Len(s) THEN 0
    ELSE IF s[p] = "-" THEN p
    ELSE FirstHyphen(s, p + 1)

\* '.' matches anything but a newline; '.+' is greedy.
RECURSIVE DotPlus(_, _)
DotPlus(s, p) ==
    IF p > Len(s) \/ s[p] = LF THEN <<>>
    ELSE <<s[p]>> \o DotPlus(s, p + 1)

\* The match, anchored at the start of the stem.  '[^-]+\s+' cannot cross a
\* hyphen, so the '-' of the pattern is the first hyphen h of the stem; the
\* text before it needs one character for '[^-]+' and ends with whitespace.
\* Group 1 is greedy and leaves '\s+' a single character.  After the hyphen
\* '\s+' takes the longest run of whitespace that still leaves '.+' a
\* character that is not a newline.
ParseStem(filename) ==
    LET h == FirstHyphen(filename, 1)
        w == RunLength(filename, h + 1, Whitespace)
        js == {j \in 1..w : h + j + 1 <= Len(filename)
                            /\ filename[h + j + 1] # LF}
        ok == /\ h >= 3
              /\ filename[h - 1] \in Whitespace
              /\ js # {}
        j == CHOOSE x \in js : \A y \in js : y <= x
    IN  IF ok
        THEN [match |-> TRUE,
              make |-> Strip(SubSeq(filename, 1, h - 2)),
              ecm |-> Strip(DotPlus(filename, h + j + 1))]
        ELSE [match |-> FALSE, make |-> <<>>, ecm |-> <<>>]

---------------------------------------------------------------------------
(* The database file.                                                      *)

\* A table of dtc_info's shape.  pruned tells which schema it has:
\*   FALSE: create_tables' schema, id INTEGER PRIMARY KEY, with description;
\*   TRUE:  the schema CREATE TABLE .. AS SELECT gives, no key, no description.
NoTable == [exists |-> FALSE, pruned |-> FALSE, rows |-> <<>>]

EmptyStore ==
    [tables |-> FALSE, makes |-> <<>>, ecms |-> <<>>, collections |-> <<>>,
     dtc |-> NoTable, temp |-> NoTable, idx |-> {}]

DtcIndices == {"idx_dtc_make_ecm", "idx_dtc_fault_code"}
AllIndices == DtcIndices \cup {"idx_ecm_make"}

\* A stored value of a dynamically typed column: its storage class and its
\* printed form.
TextValue(s) == [t |-> "text", v |-> s]

\* The decimal text of an integer.
RECURSIVE NatToText(_)
NatToText(n) ==
    IF n < 10 THEN <<DigitChar(n)>>
    ELSE NatToText(n \div 10) \o <<DigitChar(n % 10)>>

IntToText(n) == IF n < 0 THEN <<"-">> \o NatToText(-n) ELSE NatToText(n)

IntegerValue(n) == [t |-> "integer", v |-> IntToText(n)]

\* The affinity of spn, fmi and pid.  create_tables declares them TEXT, and
\* CREATE TABLE .. AS SELECT gives each new column the declared type of the
\* affinity of the column it is selected from: TEXT again.
ColumnAffinity(table) == "TEXT"

\* What SQLite stores when value is written to a column of that affinity:
\* a TEXT column converts a number to its text before storing it.
StoreValue(affinity, value) ==
    IF affinity = "TEXT" THEN TextValue(value.v) ELSE value

\* The connection: what is durable, what the connection sees, and whether
\* it has a transaction open.  The sqlite3 module opens a transaction before
\* INSERT/UPDATE/DELETE/REPLACE only; any other statement runs in the open
\* transaction when there is one and commits on its own when there is none.
Connect(d) == [db |-> d, work |-> d, inTx |-> FALSE]
Dml(c, w) == [db |-> c.db, work |-> w, inTx |-> TRUE]
Ddl(c, w) ==
    IF c.inTx THEN [db |-> c.db, work |-> w, inTx |-> TRUE]
    ELSE [db |-> w, work |-> w, inTx |-> FALSE]
Commit(c) == [db |-> c.work, work |-> c.work, inTx |-> FALSE]
\* The connection goes away without a commit: the open transaction is lost.
Discard(c) == [db |-> c.db, work |-> c.db, inTx |-> FALSE]

Conn == [db |-> db, work |-> work, inTx |-> inTx]

---------------------------------------------------------------------------
(* xl_to_sqlite.py                                                         *)

create_tables(c) ==
    LET w == [c.work EXCEPT
                !.tables = TRUE,
                !.dtc = IF c.work.dtc.exists THEN c.work.dtc
                        ELSE [exists |-> TRUE, pruned |-> FALSE, rows |-> <<>>]]
    IN  Commit(Ddl(c, w))

create_indices(c) ==
    Commit(Ddl(c, [c.work EXCEPT !.idx = AllIndices]))

\* The id a get_or_create_* returns when the SELECT found rows: result[0]
\* of the first row, not the cursor.lastrowid of the other branch (0 on a
\* connection that has inserted nothing).
FoundIdLastRowId(found, table) == 0

FoundId(found, table) == CHOOSE k \in found : \A l \in found : k <= l

get_or_create_make(c, make_name) ==
    LET t == c.work.makes
        found == {k \in 1..Len(t) : t[k] = make_name}
    IN  IF found # {}
        THEN [conn |-> c, id |-> FoundId(found, t)]
        ELSE LET w == [c.work EXCEPT !.makes = Append(t, make_name)]
             IN  [conn |-> Commit(Dml(c, w)), id |-> Len(w.makes)]

get_or_create_ecm(c, make_id, ecm_name) ==
    LET t == c.work.ecms
        found == {k \in 1..Len(t) :
                    t[k].make_id = make_id /\ t[k].name = ecm_name}
    IN  IF found # {}
        THEN [conn |-> c, id |-> FoundId(found, t)]
        ELSE LET w == [c.work EXCEPT !.ecms =
                          Append(t, [make_id |-> make_id, name |-> ecm_name])]
             IN  [conn |-> Commit(Dml(c, w)), id |-> Len(w.ecms)]

\* INSERT OR REPLACE INTO collections (make_id, ecm_id, description): the
\* only key of collections is id, which the statement does not give, so the
\* row gets the next id and there is never a row to replace.
InsertOrReplaceCollection(c, make_id, ecm_id, description) ==
    Dml(c, [c.work EXCEPT !.collections =
              Append(@, [make_id |-> make_id, ecm_id |-> ecm_id,
                         description |-> description])])

\* str(df.iloc[0, 0]) if pd.notna(df.iloc[0, 0]) else ""
CollectionDescription(a1) == IF a1 = NaN THEN <<>> ELSE Str(a1)

\* One element of dtc_records, from a sheet row of six cells.
DtcRecord(make_id, ecm_id, row) ==
    [make_id |-> make_id, ecm_id |-> ecm_id,
     fault_code |-> format_display_string(row[1]),
     pid |-> format_display_string(row[2]),
     spn |-> format_display_string(row[3]),
     fmi |-> format_display_string(row[4]),
     summary |-> format_display_string(row[5]),
     description |-> IF row[6] = NaN THEN <<>> ELSE Strip(Str(row[6]))]

\* The next value of an INTEGER PRIMARY KEY: one more than the largest.
RECURSIVE MaxId(_)
MaxId(rs) ==
    IF rs = <<>> THEN 0
    ELSE LET m == MaxId(Tail(rs))
         IN  IF Head(rs).id > m THEN Head(rs).id ELSE m

\* executemany(INSERT INTO dtc_info (make_id, .., description) ..)
RECURSIVE InsertDtc(_, _)
InsertDtc(rs, records) ==
    IF records = <<>> THEN rs
    ELSE LET r == Head(records)
         IN  InsertDtc(
                 Append(rs, [id |-> MaxId(rs) + 1,
                             make_id |-> r.make_id, ecm_id |-> r.ecm_id,
                             fault_code |-> r.fault_code,
                             pid |-> TextValue(r.pid),
                             spn |-> TextValue(r.spn),
                             fmi |-> TextValue(r.fmi),
                             summary |-> r.summary,
                             description |-> r.description]),
                 Tail(records))

\* The handler of process_excel_files (lines 51-52) prints and goes on: the
\* connection is left as the failing file left it.
OnFileErrorRollback(c) == Discard(c)

OnFileError(c) == c

\* Where the loop is after the handler ran.
AfterFileErrorRaise == "raised"

AfterFileError == "loop"

---------------------------------------------------------------------------
(* What the import job reads: the *.ci files of the data directory and the *)
(* first sheet of each.                                                     *)

\* Stems of files a directory may hold: two makes with an ECM of the same
\* name, and a stem that names neither.
Stems ==
    { <<"A", SP, "-", SP, "X">>,
      <<"B", SP, "-", SP, "X">>,
      <<"A", "X">> }

\* File lists: distinct paths, in the order glob gives them.
FileLists ==
    {fs \in UNION {[1..n -> Stems] : n \in 0..MaxFiles} :
        \A k, l \in 1..Len(fs) : k # l => fs[k] # fs[l]}

\* Sheet rows, as pandas gives them: six cells, or fewer when the sheet has
\* fewer columns.  An empty cell is NaN.
SheetRows ==
    { << <<"P">>, NaN, <<"-", "1", "2">>, <<"7", ".", "5">>,
         <<"s", LF, SP, "t">>, <<SP, "d">> >>,
      << <<"P">>, NaN, <<"1">> >> }

\* A decrypted first sheet: cell A1 and the rows below the first.
Sheets ==
    [a1 : {NaN, <<"x">>},
     rows : UNION {[1..n -> SheetRows] : n \in 0..MaxSheetRows}]

NoCur == [make_id |-> 0, ecm_id |-> 0, sheet |-> [a1 |-> NaN, rows |-> <<>>]]

NoCalls == [make |-> {}, ecm |-> {}, last |-> {}]

---------------------------------------------------------------------------
(* The state after construction: no database file yet, no job running.     *)

StoreInit ==
    /\ db = EmptyStore
    /\ work = EmptyStore
    /\ inTx = FALSE
    /\ job = "idle"
    /\ pc = "none"
    /\ ci_files = <<>>
    /\ i = 0
    /\ cur = NoCur
    /\ rows = <<>>
    /\ log = <<>>
    /\ calls = NoCalls
    /\ failed = {}
    /\ startDb = EmptyStore
    /\ outcome = "none"
    /\ runs = [import |-> 0, compress |-> 0, files |-> 0]

FnIdle ==
    /\ arg = <<>>
    /\ res = <<>>
    /\ res2 = <<>>
    /\ fpc = "idle"

Init == StoreInit /\ FnIdle

SetConn(c) ==
    /\ db' = c.db
    /\ work' = c.work
    /\ inTx' = c.inTx

---------------------------------------------------------------------------
(* process_excel_files                                                      *)

\* Lines 21-30: connect, create the tables, list the files.
StartImport ==
    /\ job = "idle"
    /\ runs.import < MaxImports
    /\ \E fs \in FileLists :
          /\ runs.files + Len(fs) <= MaxFiles
          /\ runs' = [runs EXCEPT !.import = @ + 1, !.files = @ + Len(fs)]
          /\ ci_files' = fs
          /\ SetConn(create_tables(Connect(db)))
    /\ job' = "import"
    /\ pc' = "loop"
    /\ i' = 1
    /\ log' = <<>>
    /\ failed' = {}
    /\ startDb' = EmptyStore
    /\ outcome' = "running"
    /\ UNCHANGED <<cur, rows, calls, fnVars>>

\* Where the job is: at a file of the list, past the last file, in the row
\* loop of process_file, or past create_indices.
AtFile ==
    /\ job = "import"
    /\ pc = "loop"
    /\ i <= Len(ci_files)

AtEnd ==
    /\ job = "import"
    /\ pc = "loop"
    /\ i > Len(ci_files)

AtRows == job = "import" /\ pc = "rows"

AtIndexed == job = "import" /\ pc = "indexed"

Logged(result) == Append(log, [file |-> ci_files[i], result |-> result])

\* Lines 37-41: the stem does not match, the file is skipped.
SkipFile ==
    /\ AtFile
    /\ ~ParseStem(ci_files[i]).match
    /\ i' = i + 1
    /\ log' = Logged("skipped")
    /\ UNCHANGED <<db, work, inTx, job, pc, ci_files, cur, rows, calls,
                   failed, startDb, outcome, runs, fnVars>>

\* Lines 176-184 raise (the password is wrong, the file is no workbook, the
\* sheet is empty): nothing was written; the handler of lines 51-52 runs.
OpenFails ==
    /\ AtFile
    /\ ParseStem(ci_files[i]).match
    /\ SetConn(OnFileError(Conn))
    /\ pc' = AfterFileError
    /\ i' = i + 1
    /\ log' = Logged("failed")
    /\ UNCHANGED <<job, ci_files, cur, rows, calls, failed, startDb,
                   outcome, runs, fnVars>>

\* Lines 176-195: the sheet is read, the ids are looked up or created and
\* the collection description is written.
BeginFile ==
    /\ AtFile
    /\ ParseStem(ci_files[i]).match
    /\ \E sheet \in Sheets :
          \E name \in {ParseStem(ci_files[i])} :
          \E m \in {get_or_create_make(Conn, name.make)} :
          \E e \in {get_or_create_ecm(m.conn, m.id, name.ecm)} :
          \E d \in {CollectionDescription(sheet.a1)} :
          \E c \in {InsertOrReplaceCollection(e.conn, m.id, e.id, d)} :
              /\ SetConn(c)
              /\ cur' = [make_id |-> m.id, ecm_id |-> e.id, sheet |-> sheet]
              /\ calls' =
                   [make |-> calls.make \cup {<<name.make, m.id>>},
                    ecm |-> calls.ecm \cup {<<m.id, name.ecm, e.id>>},
                    last |-> {x \in calls.last :
                                 x[1] # m.id \/ x[2] # e.id}
                             \cup {<<m.id, e.id, d>>}]
    /\ pc' = "rows"
    /\ UNCHANGED <<job, ci_files, i, rows, log, failed, startDb, outcome,
                   runs, fnVars>>

\* The rows of the sheet read row[5] of a row with fewer than six cells
\* (KeyError), or dtc_info has no description column to insert into.
RowsRaise ==
    \/ \E k \in 1..Len(cur.sheet.rows) : Len(cur.sheet.rows[k]) < 6
    \/ work.dtc.pruned

\* Lines 198-218 raise: line 225 re-raises and the handler of lines 51-52
\* runs.  The collections row of line 192 is still uncommitted.
RowsFail ==
    /\ AtRows
    /\ RowsRaise
    /\ SetConn(OnFileError(Conn))
    /\ failed' = failed \cup
          {[id |-> Len(work.collections),
            row |-> work.collections[Len(work.collections)]]}
    /\ pc' = AfterFileError
    /\ i' = i + 1
    /\ cur' = NoCur
    /\ log' = Logged("failed")
    /\ UNCHANGED <<job, ci_files, rows, calls, startDb, outcome, runs,
                   fnVars>>

\* Lines 198-221: the records are built, inserted and committed.
InsertRows ==
    /\ AtRows
    /\ ~RowsRaise
    /\ \E records \in {[k \in 1..Len(cur.sheet.rows) |->
                            DtcRecord(cur.make_id, cur.ecm_id,
                                      cur.sheet.rows[k])]} :
       \E w \in {[work EXCEPT !.dtc.rows = InsertDtc(@, records)]} :
       \E c \in {Commit(Dml(Conn, w))} :
           SetConn(c)
    /\ pc' = "loop"
    /\ i' = i + 1
    /\ cur' = NoCur
    /\ log' = Logged("imported")
    /\ UNCHANGED <<job, ci_files, rows, calls, failed, startDb, outcome,
                   runs, fnVars>>

\* Line 55: after the last file, the indices.
CreateIndices ==
    /\ AtEnd
    /\ SetConn(create_indices(Conn))
    /\ pc' = "indexed"
    /\ UNCHANGED <<job, ci_files, i, cur, rows, log, calls, failed, startDb,
                   outcome, runs, fnVars>>

\* Lines 58-59: the final commit; the connection is closed.
FinishImport ==
    /\ AtIndexed
    /\ SetConn(Discard(Commit(Conn)))
    /\ job' = "idle"
    /\ pc' = "none"
    /\ ci_files' = <<>>
    /\ i' = 0
    /\ log' = <<>>
    /\ outcome' = "imported"
    /\ UNCHANGED <<cur, rows, calls, failed, startDb, runs, fnVars>>

ImportStep ==
    \/ SkipFile
    \/ OpenFails
    \/ BeginFile
    \/ RowsFail
    \/ InsertRows
    \/ CreateIndices
    \/ FinishImport

---------------------------------------------------------------------------
(* compress_sqlite.py                                                      *)

\* SELECT id, make_id, ecm_id, fault_code, spn, fmi, pid, summary: a row of
\* the new table.
Pruned(r) ==
    [id |-> r.id, make_id |-> r.make_id, ecm_id |-> r.ecm_id,
     fault_code |-> r.fault_code, spn |-> r.spn, fmi |-> r.fmi,
     pid |-> r.pid, summary |-> r.summary]

\* CREATE TABLE IF NOT EXISTS dtc_info_temp AS SELECT .. FROM dtc_info:
\* nothing at all when dtc_info_temp exists.
CreateTempAlways(w) ==
    [w EXCEPT !.temp =
        [exists |-> TRUE, pruned |-> TRUE,
         rows |-> [k \in 1..Len(w.dtc.rows) |-> Pruned(w.dtc.rows[k])]]]

CreateTempIfNotExists(w) ==
    IF w.temp.exists THEN w ELSE CreateTempAlways(w)

\* DROP TABLE dtc_info: the table goes, and its indices with it.
DropDtc(w) == [w EXCEPT !.dtc = NoTable, !.idx = @ \ DtcIndices]

\* ALTER TABLE dtc_info_temp RENAME TO dtc_info.
RenameTemp(w) == [w EXCEPT !.dtc = w.temp, !.temp = NoTable]

\* UPDATE dtc_info SET spn=?, fmi=?, pid=? WHERE id=?
UpdateRow(w, id, spn, fmi, pid) ==
    LET a == ColumnAffinity(w.dtc)
    IN  [w EXCEPT !.dtc.rows =
           [k \in 1..Len(@) |->
              IF @[k].id = id
              THEN [@[k] EXCEPT !.spn = StoreValue(a, IntegerValue(spn)),
                                !.fmi = StoreValue(a, IntegerValue(fmi)),
                                !.pid = StoreValue(a, IntegerValue(pid))]
              ELSE @[k]]]

\* Lines 17-18: connect.
StartCompress ==
    /\ job = "idle"
    /\ runs.compress < MaxCompressions
    /\ SetConn(Connect(db))
    /\ job' = "compress"
    /\ pc' = "create"
    /\ startDb' = db
    /\ outcome' = "running"
    /\ runs' = [runs EXCEPT !.compress = @ + 1]
    /\ log' = <<>>
    /\ failed' = {}
    /\ ci_files' = <<>>
    /\ i' = 0
    /\ UNCHANGED <<cur, rows, calls, fnVars>>

\* The job ends with an exception (no handler, no rollback) or is stopped:
\* what the connection had not committed is lost.
Stopped(how) ==
    /\ SetConn(Discard(Conn))
    /\ job' = "idle"
    /\ pc' = "none"
    /\ rows' = <<>>
    /\ outcome' = how

\* Lines 21-25.  Without dtc_info_temp and without dtc_info the SELECT
\* raises "no such table".
CreateTemp ==
    /\ job = "compress"
    /\ pc = "create"
    /\ IF ~work.temp.exists /\ ~work.dtc.exists
       THEN Stopped("raised")
       ELSE /\ SetConn(Ddl(Conn, CreateTempIfNotExists(work)))
            /\ pc' = "drop"
            /\ UNCHANGED <<job, rows, outcome>>
    /\ UNCHANGED <<ci_files, i, cur, log, calls, failed, startDb, runs,
                   fnVars>>

\* Line 26.  Without dtc_info the statement raises "no such table".
DropTable ==
    /\ job = "compress"
    /\ pc = "drop"
    /\ IF ~work.dtc.exists
       THEN Stopped("raised")
       ELSE /\ SetConn(Ddl(Conn, DropDtc(work)))
            /\ pc' = "rename"
            /\ UNCHANGED <<job, rows, outcome>>
    /\ UNCHANGED <<ci_files, i, cur, log, calls, failed, startDb, runs,
                   fnVars>>

\* Line 27.
RenameTable ==
    /\ job = "compress"
    /\ pc = "rename"
    /\ SetConn(Ddl(Conn, RenameTemp(work)))
    /\ pc' = "select"
    /\ UNCHANGED <<job, ci_files, i, cur, rows, log, calls, failed, startDb,
                   outcome, runs, fnVars>>

\* Lines 30-31: fetch id, spn, fmi, pid of every row.
SelectRows ==
    /\ job = "compress"
    /\ pc = "select"
    /\ rows' = [k \in 1..Len(work.dtc.rows) |->
                  [id |-> work.dtc.rows[k].id, spn |-> work.dtc.rows[k].spn,
                   fmi |-> work.dtc.rows[k].fmi, pid |-> work.dtc.rows[k].pid]]
    /\ pc' = "update"
    /\ UNCHANGED <<db, work, inTx, job, ci_files, i, cur, log, calls, failed,
                   startDb, outcome, runs, fnVars>>

\* Lines 32-38, one turn of the loop.  clean_int takes a str: a value that
\* comes back as an int has no split() and raises.
EditRow ==
    /\ job = "compress"
    /\ pc = "update"
    /\ rows # <<>>
    /\ LET r == Head(rows)
       IN  IF r.spn.t = "text" /\ r.fmi.t = "text" /\ r.pid.t = "text"
           THEN /\ SetConn(Dml(Conn,
                       UpdateRow(work, r.id, clean_int(r.spn.v),
                                 clean_int(r.fmi.v), clean_int(r.pid.v))))
                /\ rows' = Tail(rows)
                /\ UNCHANGED <<job, pc, outcome>>
           ELSE Stopped("raised")
    /\ UNCHANGED <<ci_files, i, cur, log, calls, failed, startDb, runs,
                   fnVars>>

\* Lines 40-41: commit and close.
CommitCompress ==
    /\ job = "compress"
    /\ pc = "update"
    /\ rows = <<>>
    /\ SetConn(Discard(Commit(Conn)))
    /\ job' = "idle"
    /\ pc' = "none"
    /\ outcome' = "compressed"
    /\ UNCHANGED <<ci_files, i, cur, rows, log, calls, failed, startDb,
                   runs, fnVars>>

\* The job stops between two statements (the process is killed, the disk
\* is full, the file is locked): compress_sqlite_db has no handler.
StopCompress ==
    /\ job = "compress"
    /\ Stopped("stopped")
    /\ UNCHANGED <<ci_files, i, cur, log, calls, failed, startDb, runs,
                   fnVars>>

CompressStep ==
    \/ CreateTemp
    \/ DropTable
    \/ RenameTable
    \/ SelectRows
    \/ EditRow
    \/ CommitCompress
    \/ StopCompress

Next ==
    \/ StartImport
    \/ ImportStep
    \/ StartCompress
    \/ CompressStep

Spec == Init /\ [][Next]_vars

\* process_excel_files is one sequential program: while it runs, the
\* statement it is at is executed.
FairSpec == Spec /\ WF_vars(ImportStep)

---------------------------------------------------------------------------
(* The pure helpers, each called once on an argument drawn from a bounded  *)
(* set; the database is not touched.                                       *)

FmtAlphabet == {"a", SP, LF, CR}
IntAlphabet == {"0", "7", ".", "-", "a"}
StemAlphabet == {"A", "-", SP}

\* The examples of clean_int's contract.
IntExamples ==
    { <<"1", "2", "3", ".", "4", "5">>,
      <<"S", "P", "N", "-", "1", "2", "3", "4">>,
      <<"a", "b", "c">>,
      <<>>,
      <<"0", "0", "7">> }

InitFmt ==
    /\ StoreInit
    /\ arg \in TextsUpTo(FmtAlphabet, MaxText) \cup {None}
    /\ res = <<>>
    /\ res2 = <<>>
    /\ fpc = "init"

CallFormat ==
    /\ fpc = "init"
    /\ res' = format_display_string(arg)
    /\ res2' = format_display_string(format_display_string(arg))
    /\ fpc' = "called"
    /\ UNCHANGED <<arg, storeVars>>

SpecFmt == InitFmt /\ [][CallFormat]_vars

InitInt ==
    /\ StoreInit
    /\ arg \in TextsUpTo(IntAlphabet, MaxDigits) \cup IntExamples
    /\ res = 0
    /\ res2 = 0
    /\ fpc = "init"

CallCleanInt ==
    /\ fpc = "init"
    /\ res' = clean_int(arg)
    /\ fpc' = "called"
    /\ UNCHANGED <<arg, res2, storeVars>>

SpecInt == InitInt /\ [][CallCleanInt]_vars

InitStem ==
    /\ StoreInit
    /\ arg \in TextsUpTo(StemAlphabet, MaxStem)
    /\ res = [match |-> FALSE, make |-> <<>>, ecm |-> <<>>]
    /\ res2 = <<>>
    /\ fpc = "init"

CallParseStem ==
    /\ fpc = "init"
    /\ res' = ParseStem(arg)
    /\ fpc' = "called"
    /\ UNCHANGED <<arg, res2, storeVars>>

SpecStem == InitStem /\ [][CallParseStem]_vars

---------------------------------------------------------------------------
(* Properties.                                                             *)

SamePair(a, b) == a.make_id = b.make_id /\ a.ecm_id = b.ecm_id

\* C1: the collections table holds at most one row per (make_id, ecm_id)
\* pair, and once the job has ended that row carries the description the
\* most recent import of the pair wrote.
C1_OneCollectionPerPair ==
    /\ \A k, l \in 1..Len(db.collections) :
          SamePair(db.collections[k], db.collections[l]) => k = l
    /\ job = "idle" =>
          \A k \in 1..Len(db.collections) :
             <<db.collections[k].make_id, db.collections[k].ecm_id,
               db.collections[k].description>> \in calls.last

\* C2: while compress_sqlite_db runs, and after it raised or was stopped,
\* the durable store still has dtc_info as it was when the job started and
\* has no dtc_info_temp.
C2_PruneAtomic ==
    (job = "compress" \/ outcome \in {"raised", "stopped"}) =>
        /\ db.dtc = startDb.dtc
        /\ ~db.temp.exists

\* C3: when the prune step is over, dtc_info has as many rows as it had
\* when the job started, and every old row is there with its id, make_id,
\* ecm_id, fault_code, spn, fmi, pid and summary.
C3_PrunePreserves ==
    (job = "compress" /\ pc = "select") =>
        /\ Len(work.dtc.rows) = Len(startDb.dtc.rows)
        /\ \A k \in 1..Len(startDb.dtc.rows) :
              \E l \in 1..Len(work.dtc.rows) :
                 work.dtc.rows[l] = Pruned(startDb.dtc.rows[k])

NoDuplicates(t) == \A k, l \in 1..Len(t) : t[k] = t[l] => k = l

\* Every row of old is a row of new, at its place and as it was.
KeepsRows(old, new) ==
    /\ Len(new) >= Len(old)
    /\ \A k \in 1..Len(old) : new[k] = old[k]

\* C4: two calls of get_or_create_make (get_or_create_ecm) with the same
\* arguments return the same id, makes has one row per name and ecms one
\* per (make_id, name), and no step changes or removes a row of either.
C4_GetOrCreate ==
    /\ [](/\ \A a, b \in calls.make : a[1] = b[1] => a[2] = b[2]
          /\ \A a, b \in calls.ecm :
                (a[1] = b[1] /\ a[2] = b[2]) => a[3] = b[3]
          /\ NoDuplicates(db.makes) /\ NoDuplicates(work.makes)
          /\ NoDuplicates(db.ecms) /\ NoDuplicates(work.ecms))
    /\ [][/\ KeepsRows(db.makes, db.makes')
          /\ KeepsRows(work.makes, work.makes')
          /\ KeepsRows(db.ecms, db.ecms')
          /\ KeepsRows(work.ecms, work.ecms')]_vars

\* A second import of a make and ECM: both lookups found their row.
C4_Witness ==
    /\ Len(db.makes) = 1
    /\ Len(db.ecms) = 1
    /\ Len(db.collections) = 2
    /\ calls.make = {<<db.makes[1], 1>>}
    /\ calls.ecm = {<<1, db.ecms[1].name, 1>>}

HasCrLf(t) == \E k \in 1..Len(t) - 1 : t[k] = CR /\ t[k + 1] = LF

\* C5: the result of format_display_string has no CR LF pair, no newline,
\* no two consecutive spaces and no whitespace at either end; formatting
\* it again changes nothing; None gives the empty text.
C5_Normalised ==
    fpc = "called" =>
        /\ ~HasCrLf(res)
        /\ \A k \in 1..Len(res) : res[k] # LF
        /\ \A k \in 1..Len(res) - 1 : ~(res[k] = SP /\ res[k + 1] = SP)
        /\ res # <<>> => (res[1] \notin Whitespace
                          /\ res[Len(res)] \notin Whitespace)
        /\ res2 = res
        /\ arg = None => res = <<>>

\* The reference algorithm of clean_int, by position: d is the place of
\* the first '.', the digits before it are weighted by the number of digits
\* between them and d.
RECURSIVE Pow10(_)
Pow10(n) == IF n = 0 THEN 1 ELSE 10 * Pow10(n - 1)

RECURSIVE Sum(_, _)
Sum(f, S) ==
    IF S = {} THEN 0
    ELSE LET x == CHOOSE y \in S : TRUE IN f[x] + Sum(f, S \ {x})

ReferenceCleanInt(s) ==
    LET dots == {k \in 1..Len(s) : s[k] = "."}
        d == IF dots = {} THEN Len(s) + 1
             ELSE CHOOSE k \in dots : \A l \in dots : k <= l
        ds == {k \in 1..(d - 1) : s[k] \in Digits}
        weight == [k \in ds |->
                     DigitValue(s[k])
                       * Pow10(Cardinality({l \in ds : l > k}))]
    IN  IF ds = {} THEN -1 ELSE Sum(weight, ds)

\* C6: clean_int gives what its reference algorithm gives: -1 or a
\* non-negative integer, and the values of its five examples.
C6_CleanInt ==
    fpc = "called" =>
        /\ res = ReferenceCleanInt(arg)
        /\ res = -1 \/ res >= 0
        /\ arg = <<"1", "2", "3", ".", "4", "5">> => res = 123
        /\ arg = <<"S", "P", "N", "-", "1", "2", "3", "4">> => res = 1234
        /\ arg = <<"a", "b", "c">> => res = -1
        /\ arg = <<>> => res = -1
        /\ arg = <<"0", "0", "7">> => res = 7

\* A minus sign is dropped and the fraction is cut.
C6_Witness ==
    /\ fpc = "called"
    /\ arg = <<"-", "7", ".", "0">>
    /\ res = 7

\* The import loop takes the files one by one and in order whatever became
\* of the files before; a running job is always at a place where a step of
\* it can be taken (at a file, in the rows of a file, past the last file,
\* or past the indices); past the indices every file of the list has been
\* attempted and the indices exist, and the job ends with everything
\* committed and the connection closed.
AttemptsInOrder ==
    /\ job = "import" =>
          /\ AtFile \/ AtRows \/ AtEnd \/ AtIndexed
          /\ Len(log) = i - 1
          /\ i <= Len(ci_files) + 1
          /\ pc = "rows" => i <= Len(ci_files)
          /\ \A k \in 1..Len(log) : log[k].file = ci_files[k]
          /\ AtIndexed =>
                /\ Len(log) = Len(ci_files)
                /\ work.idx = AllIndices
    /\ outcome = "imported" =>
          /\ job = "idle"
          /\ db.idx = AllIndices
          /\ ~inTx
          /\ work = db

\* C7: whichever files fail, the import job attempts every file of its list
\* once and in order, each finished before the next starts, and a job that
\* has started always goes on to create the indices, commit and close.
C7_FailureIsolation ==
    /\ []AttemptsInOrder
    /\ (job = "import") ~> (outcome = "imported")

\* A job past its indices whose first file failed and whose second file
\* was imported.
C7_Witness ==
    /\ AtIndexed
    /\ Len(log) = 2
    /\ log[1].result = "failed"
    /\ log[2].result = "imported"

ContainsSeparator(s) ==
    \E k \in 1..Len(s) - 2 : s[k] = SP /\ s[k + 1] = "-" /\ s[k + 2] = SP

FirstSeparator(s) ==
    CHOOSE k \in 1..Len(s) - 2 :
        /\ s[k] = SP /\ s[k + 1] = "-" /\ s[k + 2] = SP
        /\ \A l \in 1..(k - 1) :
              ~(s[l] = SP /\ s[l + 1] = "-" /\ s[l + 2] = SP)

\* C8: a stem is matched if and only if it contains space-hyphen-space;
\* then the make is what is left of the separator and the ECM what is
\* right of it, each trimmed.
C8_StemParsing ==
    fpc = "called" =>
        /\ res.match <=> ContainsSeparator(arg)
        /\ res.match =>
              /\ res.make = Strip(SubSeq(arg, 1, FirstSeparator(arg) - 1))
              /\ res.ecm = Strip(SubSeq(arg, FirstSeparator(arg) + 3,
                                        Len(arg)))

\* C9: after compress_sqlite_db completed on a store as the import job
\* leaves it, dtc_info has no description column, spn, fmi and pid of every
\* row are integers, clean_int of what the row held, and the other columns
\* of every row are as they were.
C9_PostProcessed ==
    (/\ job = "idle"
     /\ outcome = "compressed"
     /\ startDb.dtc.exists
     /\ ~startDb.dtc.pruned
     /\ ~startDb.temp.exists) =>
        /\ db.dtc.exists
        /\ db.dtc.pruned
        /\ Len(db.dtc.rows) = Len(startDb.dtc.rows)
        /\ \A k \in 1..Len(db.dtc.rows) :
              LET new == db.dtc.rows[k]
                  old == startDb.dtc.rows[k]
              IN  /\ new.spn = IntegerValue(clean_int(old.spn.v))
                  /\ new.fmi = IntegerValue(clean_int(old.fmi.v))
                  /\ new.pid = IntegerValue(clean_int(old.pid.v))
                  /\ new.id = old.id
                  /\ new.make_id = old.make_id
                  /\ new.ecm_id = old.ecm_id
                  /\ new.fault_code = old.fault_code
                  /\ new.summary = old.summary

IsRow(t, f) == f.id <= Len(t) /\ t[f.id] = f.row

\* C10, as claimed: a row a failing file had written but not committed
\* never becomes durable.
C10_UncommittedNeverDurable ==
    \A f \in failed : ~IsRow(db.collections, f)

\* C10, amended: a row a failing file had written but not committed is
\* never rolled back; it stays in the connection's open transaction, is
\* durable whenever no transaction is open, and so at the end of the job.
C10_UncommittedMadeDurable ==
    /\ \A f \in failed : IsRow(work.collections, f)
    /\ ~inTx => \A f \in failed : IsRow(db.collections, f)
    /\ outcome = "imported" => \A f \in failed : IsRow(db.collections, f)

\* A job that ended after one of its files failed past its collections row.
C10_Witness ==
    /\ outcome = "imported"
    /\ failed # {}

=============================================================================
